---------------------------- MODULE Spec2Model ----------------------------
(***************************************************************************)
(* Model of src/local/run.py: a script that submits a create-event command,*)
(* loads a template aggregate document, rewrites its activity identifiers  *)
(* (adjust_ids), waits for the service's object to appear in the object    *)
(* store and then overwrites it with the rewritten document.               *)
(*                                                                         *)
(* Line 133 of the source ("// ai") is a stray marker that is not a Python *)
(* statement; it is modelled as having no effect.                          *)
(***************************************************************************)
EXTENDS Integers, Sequences, FiniteSets, TLC

(***************************************************************************)
(* Bounds of the model (sizes of the documents handed to adjust_ids).      *)
(***************************************************************************)
MaxDefs == 2
MaxParts == 1
MaxRefs == 1
MaxCats == 1

(***************************************************************************)
(* Identifiers.  The four new identifiers are fresh uuid4 tokens, modelled *)
(* as four distinct strings.                                               *)
(***************************************************************************)
kata_id == "N1"
kumite_id == "N2"
team_id == "N3"
coach_id == "N4"
\* "#" + event_id, the value of sample_data['id'] (line 116).
event_ref == "#E1"

\* The value of the local new_activity_id before its first assignment.
Unbound == "<unbound>"

\* Original identifiers and names occurring in generated template documents.
IdPool == {"A1", "A2"}
NamePool == {"Kata", "Kumite", "Judge"}

FixedNames == {"Kata", "Kumite", "Team Kata", "Coach"}

\* The identifier the script generated for a name (lines 26-29, 43-59).
NewIdOf(name) ==
  CASE name = "Kata" -> kata_id
    [] name = "Kumite" -> kumite_id
    [] name = "Team Kata" -> team_id
    [] name = "Coach" -> coach_id
    [] OTHER -> Unbound

\* data['commands'][0]['attrs']['activities'] of the outbound command.
CommandActivities ==
  << [aid |-> kata_id, name |-> "Kata"],
     [aid |-> kumite_id, name |-> "Kumite"],
     [aid |-> team_id, name |-> "Team Kata"],
     [aid |-> coach_id, name |-> "Coach"] >>

(***************************************************************************)
(* Documents.  aid stands for the JSON key 'activity-id'; has tells whether*)
(* a participant carries an 'activities' key.                              *)
(***************************************************************************)
SeqsUpTo(S, n) == UNION {[1..k -> S] : k \in 0..n}

NoDoc == [id |-> "", activities |-> <<>>, participants |-> <<>>, categories |-> <<>>]

ActivityDefs == [aid : IdPool, name : NamePool]

Participants ==
  [has : {TRUE}, activities : SeqsUpTo(IdPool, MaxRefs)]
    \cup {[has |-> FALSE, activities |-> <<>>]}

RemapDocs ==
  [id : {event_ref},
   activities : SeqsUpTo(ActivityDefs, MaxDefs),
   participants : SeqsUpTo(Participants, MaxParts),
   categories : SeqsUpTo(IdPool, MaxCats)]

\* The end-to-end scenario of the specification and four defective templates.
Templates ==
  { [id |-> "T",
     activities |-> << [aid |-> "A1", name |-> "Kata"], [aid |-> "A2", name |-> "Kumite"],
                       [aid |-> "A3", name |-> "Team Kata"], [aid |-> "A4", name |-> "Coach"] >>,
     participants |-> << [has |-> TRUE, activities |-> <<"A2">>],
                         [has |-> FALSE, activities |-> <<>>] >>,
     categories |-> <<"A1">>],
    [id |-> "T",
     activities |-> << [aid |-> "A1", name |-> "Kata"], [aid |-> "A2", name |-> "Judge"] >>,
     participants |-> <<>>,
     categories |-> <<"A2">>],
    [id |-> "T",
     activities |-> << [aid |-> "A1", name |-> "Judge"] >>,
     participants |-> <<>>,
     categories |-> <<>>],
    [id |-> "T",
     activities |-> << [aid |-> "A1", name |-> "Kata"] >>,
     participants |-> << [has |-> TRUE, activities |-> <<"A1", "A3">>] >>,
     categories |-> <<>>],
    [id |-> "T",
     activities |-> << [aid |-> "A1", name |-> "Kata"], [aid |-> "A1", name |-> "Kumite"] >>,
     participants |-> <<>>,
     categories |-> <<"A1">>] }

(***************************************************************************)
(* activity_id_map is a Python dict, modelled as a set of <<key, value>>   *)
(* pairs with at most one pair per key.                                    *)
(***************************************************************************)
HasKey(m, k) == \E e \in m : e[1] = k
\* Mutation of Lookup: the reference is left as it was.
LookupUnmapped(m, k) == k

Lookup(m, k) == (CHOOSE e \in m : e[1] = k)[2]
Store(m, k, v) == {e \in m : e[1] # k} \cup {<<k, v>>}

\* Mutation of SetId: the definition's own identifier is not overwritten.
SetIdSkipped(d, k, n) == d

\* Mutation of SetId: the definition is replaced by a record with the
\* identifier only.
SetIdDropsName(d, k, n) == [d EXCEPT !.activities[k] = [aid |-> n, name |-> ""]]

\* adjust_ids, line 87: activity['activity-id'] = new_activity_id.
SetId(d, k, n) == [d EXCEPT !.activities[k].aid = n]

\* Mutation of NameBranch: two branches assign each other's identifier.
NameBranchSwapped(name, cur) ==
  LET n1 == IF name = "Kata" THEN kumite_id ELSE cur
      n2 == IF name = "Kumite" THEN kata_id ELSE n1
      n3 == IF name = "Team Kata" THEN team_id ELSE n2
      n4 == IF name = "Coach" THEN coach_id ELSE n3
  IN n4

(***************************************************************************)
(* adjust_ids, lines 79-86: four independent `if`s on the name; when none  *)
(* matches, new_activity_id keeps the value it had (cur).                  *)
(***************************************************************************)
NameBranch(name, cur) ==
  LET n1 == IF name = "Kata" THEN kata_id ELSE cur
      n2 == IF name = "Kumite" THEN kumite_id ELSE n1
      n3 == IF name = "Team Kata" THEN team_id ELSE n2
      n4 == IF name = "Coach" THEN coach_id ELSE n3
  IN n4

VARIABLES
  pc,               \* position of the script
  err,              \* exception raised, "none" if none
  command,          \* activities of the command received by the endpoint
  doc,              \* sample_data
  old_file,         \* audit copy written before adjust_ids
  new_file,         \* audit copy written after adjust_ids
  payload,          \* modified_json_data
  activity_id_map,  \* adjust_ids: old identifier -> new identifier
  new_activity_id,  \* adjust_ids: local variable of pass 1
  i, p, a, c,       \* adjust_ids: loop positions (definition, participant, reference, category)
  time_waited,      \* wait loop
  heads,            \* number of head_object calls
  notfounds,        \* number of "not found" answers
  sleeps,           \* number of time.sleep calls
  puts,             \* number of put_object calls
  wait_result,      \* how the wait loop ended: "none", "found", "timeout", "error"
  store,            \* the object at s3_key
  svc               \* the remote service: "idle", "pending" or "written"

vars == << pc, err, command, doc, old_file, new_file, payload, activity_id_map,
           new_activity_id, i, p, a, c, time_waited, heads, notfounds, sleeps,
           puts, wait_result, store, svc >>

remapVars == << doc, activity_id_map, new_activity_id, i, p, a, c >>
waitVars == << time_waited, heads, notfounds, sleeps, puts, wait_result >>
fileVars == << old_file, new_file, payload >>

(***************************************************************************)
(* adjust_ids, one loop iteration per action.                              *)
(***************************************************************************)
\* Lines 76-88, one definition.  Reading new_activity_id at line 87 before
\* any branch assigned it raises UnboundLocalError, which the handler at
\* line 176 does not catch.
Pass1Step ==
  /\ pc = "pass1"
  /\ i <= Len(doc.activities)
  /\ LET activity == doc.activities[i]
         original_activity_id == activity.aid
         n == NameBranch(activity.name, new_activity_id)
     IN IF n = Unbound
          THEN /\ err' = "UnboundLocalError"
               /\ pc' = "crashed"
               /\ UNCHANGED remapVars
          ELSE /\ doc' = SetId(doc, i, n)
               /\ activity_id_map' = Store(activity_id_map, original_activity_id, n)
               /\ new_activity_id' = n
               /\ i' = i + 1
               /\ UNCHANGED << pc, err, p, a, c >>
  /\ UNCHANGED << command, fileVars, waitVars, store, svc >>

\* Mutation of Pass1Done: the first loop is left before its last definition.
Pass1DoneEarly ==
  /\ pc = "pass1"
  /\ i > 1
  /\ pc' = "pass2"
  /\ UNCHANGED << err, command, remapVars, fileVars, waitVars, store, svc >>

\* Line 76 exhausted: the second pass begins.
Pass1Done ==
  /\ pc = "pass1"
  /\ i > Len(doc.activities)
  /\ pc' = "pass2"
  /\ UNCHANGED << err, command, remapVars, fileVars, waitVars, store, svc >>

\* Lines 93-94, one participant activity.  A missing key raises KeyError.
Pass2Step ==
  /\ pc = "pass2"
  /\ p <= Len(doc.participants)
  /\ doc.participants[p].has
  /\ a <= Len(doc.participants[p].activities)
  /\ LET old == doc.participants[p].activities[a]
     IN IF HasKey(activity_id_map, old)
          THEN /\ doc' = [doc EXCEPT !.participants[p].activities[a] =
                                        Lookup(activity_id_map, old)]
               /\ a' = a + 1
               /\ UNCHANGED << pc, err >>
          ELSE /\ err' = "KeyError"
               /\ pc' = "crashed"
               /\ UNCHANGED << doc, a >>
  /\ UNCHANGED << command, activity_id_map, new_activity_id, i, p, c,
                  fileVars, waitVars, store, svc >>

\* Lines 91-93: next participant (no 'activities' key, or its list is done).
Pass2Next ==
  /\ pc = "pass2"
  /\ p <= Len(doc.participants)
  /\ \/ ~doc.participants[p].has
     \/ a > Len(doc.participants[p].activities)
  /\ p' = p + 1
  /\ a' = 1
  /\ UNCHANGED << pc, err, command, doc, activity_id_map, new_activity_id, i, c,
                  fileVars, waitVars, store, svc >>

Pass2Done ==
  /\ pc = "pass2"
  /\ p > Len(doc.participants)
  /\ pc' = "pass3"
  /\ UNCHANGED << err, command, remapVars, fileVars, waitVars, store, svc >>

\* Lines 96-97, one category.
Pass3Step ==
  /\ pc = "pass3"
  /\ c <= Len(doc.categories)
  /\ LET old == doc.categories[c]
     IN IF HasKey(activity_id_map, old)
          THEN /\ doc' = [doc EXCEPT !.categories[c] = Lookup(activity_id_map, old)]
               /\ c' = c + 1
               /\ UNCHANGED << pc, err >>
          ELSE /\ err' = "KeyError"
               /\ pc' = "crashed"
               /\ UNCHANGED << doc, c >>
  /\ UNCHANGED << command, activity_id_map, new_activity_id, i, p, a,
                  fileVars, waitVars, store, svc >>

\* adjust_ids returns (line 97 exhausted); control is back at line 135.
Pass3Done ==
  /\ pc = "pass3"
  /\ c > Len(doc.categories)
  /\ pc' = "save_new"
  /\ UNCHANGED << err, command, remapVars, fileVars, waitVars, store, svc >>

AdjustIdsNext ==
  \/ Pass1Step
  \/ Pass1Done
  \/ Pass2Step
  \/ Pass2Next
  \/ Pass2Done
  \/ Pass3Step
  \/ Pass3Done

(***************************************************************************)
(* adjust_ids alone: the call at line 131 on every bounded document.       *)
(***************************************************************************)
InitRemap ==
  /\ pc = "pass1"
  /\ err = "none"
  /\ command = CommandActivities
  /\ doc \in RemapDocs
  /\ old_file = doc
  /\ new_file = NoDoc
  /\ payload = NoDoc
  /\ activity_id_map = {}
  /\ new_activity_id = Unbound
  /\ i = 1 /\ p = 1 /\ a = 1 /\ c = 1
  /\ time_waited = 0 /\ heads = 0 /\ notfounds = 0 /\ sleeps = 0 /\ puts = 0
  /\ wait_result = "none"
  /\ store = [kind |-> "none", body |-> NoDoc]
  /\ svc = "pending"

SpecRemap == InitRemap /\ [][AdjustIdsNext]_vars

(***************************************************************************)
(* The whole run, lines 99-177.                                            *)
(***************************************************************************)
max_wait_seconds == 300
wait_interval_seconds == 10

NoObject == [kind |-> "none", body |-> NoDoc]
Placeholder == [kind |-> "placeholder", body |-> NoDoc]
Unrelated == [kind |-> "unrelated", body |-> NoDoc]

Init ==
  /\ pc = "post"
  /\ err = "none"
  /\ command = <<>>
  /\ doc = NoDoc
  /\ old_file = NoDoc
  /\ new_file = NoDoc
  /\ payload = NoDoc
  /\ activity_id_map = {}
  /\ new_activity_id = Unbound
  /\ i = 1 /\ p = 1 /\ a = 1 /\ c = 1
  /\ time_waited = 0 /\ heads = 0 /\ notfounds = 0 /\ sleeps = 0 /\ puts = 0
  /\ wait_result = "none"
  /\ store \in {NoObject, Unrelated}
  /\ svc = "idle"

\* Lines 100-111: the command is accepted; the service will write its object.
PostOk ==
  /\ pc = "post"
  /\ command' = CommandActivities
  /\ svc' = "pending"
  /\ pc' = "load"
  /\ UNCHANGED << err, remapVars, fileVars, waitVars, store >>

\* Mutation of PostFail: the failure is reported and the run goes on.
PostFailContinues ==
  /\ pc = "post"
  /\ \E e \in {"ConnectionError", "HTTPError"} : err' = e
  /\ pc' = "load"
  /\ UNCHANGED << command, remapVars, fileVars, waitVars, store, svc >>

\* Mutation of PostFail: the handler is missing, the exception propagates.
PostFailPropagates ==
  /\ pc = "post"
  /\ \E e \in {"ConnectionError", "HTTPError"} : err' = e
  /\ pc' = "crashed"
  /\ UNCHANGED << command, remapVars, fileVars, waitVars, store, svc >>

\* Lines 100-102 and 176-177: the endpoint is unreachable (ConnectionError)
\* or answers a non-success status (HTTPError from raise_for_status); both
\* are RequestExceptions and are caught by the handler.
PostFail ==
  /\ pc = "post"
  /\ \E e \in {"ConnectionError", "HTTPError"} : err' = e
  /\ pc' = "handled"
  /\ UNCHANGED << command, remapVars, fileVars, waitVars, store, svc >>

\* Lines 113-116: json.load of the template, then sample_data['id'].
Load ==
  /\ pc = "load"
  /\ \E t \in Templates : doc' = [t EXCEPT !.id = event_ref]
  /\ pc' = "save_old"
  /\ UNCHANGED << err, command, activity_id_map, new_activity_id, i, p, a, c,
                  fileVars, waitVars, store, svc >>

\* Lines 119-131: the first audit copy, then the call of adjust_ids.
SaveOld ==
  /\ pc = "save_old"
  /\ old_file' = doc
  /\ pc' = "pass1"
  /\ UNCHANGED << err, command, remapVars, new_file, payload, waitVars, store, svc >>

\* Lines 135-147: the second audit copy, the payload, the loop variables.
SaveNew ==
  /\ pc = "save_new"
  /\ new_file' = doc
  /\ payload' = doc
  /\ time_waited' = 0
  /\ pc' = "wait"
  /\ UNCHANGED << err, command, remapVars, old_file, heads, notfounds, sleeps,
                  puts, wait_result, store, svc >>

\* Mutation of LoopCond: an off-by-one loop condition.
LoopCondInclusive == time_waited <= max_wait_seconds

\* Line 148: the loop condition.
LoopCond == time_waited < max_wait_seconds

\* Mutation of HeadFound: the break is missing, the loop goes on.
HeadFoundNoBreak ==
  /\ pc = "wait"
  /\ LoopCond
  /\ store.kind # "none"
  /\ heads' = heads + 1
  /\ wait_result' = "found"
  /\ UNCHANGED << pc, err, command, remapVars, fileVars, time_waited, notfounds,
                  sleeps, puts, store, svc >>

\* Lines 148-152: head_object succeeds, break.
HeadFound ==
  /\ pc = "wait"
  /\ LoopCond
  /\ store.kind # "none"
  /\ heads' = heads + 1
  /\ wait_result' = "found"
  /\ pc' = "found"
  /\ UNCHANGED << err, command, remapVars, fileVars, time_waited, notfounds,
                  sleeps, puts, store, svc >>

\* Mutation of HeadNotFound: the elapsed time is not accumulated.
HeadNotFoundNoAccumulate ==
  /\ pc = "wait"
  /\ LoopCond
  /\ store.kind = "none"
  /\ heads' = heads + 1
  /\ notfounds' = notfounds + 1
  /\ sleeps' = sleeps + 1
  /\ UNCHANGED << pc, err, command, remapVars, fileVars, time_waited, puts,
                  wait_result, store, svc >>

\* Lines 153-158: ClientError with code 404 or NoSuchKey; sleep, accumulate.
HeadNotFound ==
  /\ pc = "wait"
  /\ LoopCond
  /\ store.kind = "none"
  /\ heads' = heads + 1
  /\ notfounds' = notfounds + 1
  /\ sleeps' = sleeps + 1
  /\ time_waited' = time_waited + wait_interval_seconds
  /\ UNCHANGED << pc, err, command, remapVars, fileVars, puts, wait_result, store, svc >>

\* Mutation of HeadError: the raise is missing, the loop goes on.
HeadErrorNoRaise ==
  /\ pc = "wait"
  /\ LoopCond
  /\ heads' = heads + 1
  /\ wait_result' = "error"
  /\ UNCHANGED << pc, err, command, remapVars, fileVars, time_waited, notfounds,
                  sleeps, puts, store, svc >>

\* Lines 159-162: any other ClientError is re-raised; line 176 does not
\* catch it.
HeadError ==
  /\ pc = "wait"
  /\ LoopCond
  /\ heads' = heads + 1
  /\ wait_result' = "error"
  /\ err' = "ClientError"
  /\ pc' = "crashed"
  /\ UNCHANGED << command, remapVars, fileVars, time_waited, notfounds, sleeps,
                  puts, store, svc >>

\* Lines 163-165: the loop condition is false, the else branch runs.
TimedOut ==
  /\ pc = "wait"
  /\ ~LoopCond
  /\ wait_result' = "timeout"
  /\ pc' = "timed_out"
  /\ UNCHANGED << err, command, remapVars, fileVars, time_waited, heads,
                  notfounds, sleeps, puts, store, svc >>

\* Line 167: put_object is called.
PutCall ==
  /\ pc \in {"found", "timed_out"}
  /\ puts' = puts + 1
  /\ pc' = "put"
  /\ UNCHANGED << err, command, remapVars, fileVars, time_waited, heads,
                  notfounds, sleeps, wait_result, store, svc >>

\* Mutation of PutOk: a create-only write, an object already at the key stays.
PutOkKeepsExisting ==
  /\ pc = "put"
  /\ store' = (IF store.kind = "none" THEN [kind |-> "payload", body |-> payload] ELSE store)
  /\ pc' = "done"
  /\ UNCHANGED << err, command, remapVars, fileVars, waitVars, svc >>

\* Mutation of PutOk: the write is made only when the object had been found.
PutOkIfFound ==
  /\ pc = "put"
  /\ store' = (IF wait_result = "found" THEN [kind |-> "payload", body |-> payload] ELSE store)
  /\ pc' = "done"
  /\ UNCHANGED << err, command, remapVars, fileVars, waitVars, svc >>

\* Lines 167-174: the write succeeds and replaces the object at the key.
PutOk ==
  /\ pc = "put"
  /\ store' = [kind |-> "payload", body |-> payload]
  /\ pc' = "done"
  /\ UNCHANGED << err, command, remapVars, fileVars, waitVars, svc >>

\* Mutation of PutFail: a failed put_object is tried again.
PutFailRetry ==
  /\ pc = "put"
  /\ puts < 3
  /\ puts' = puts + 1
  /\ UNCHANGED << pc, err, command, remapVars, fileVars, time_waited, heads,
                  notfounds, sleeps, wait_result, store, svc >>

\* Line 167: put_object raises; line 176 does not catch a ClientError.
PutFail ==
  /\ pc = "put"
  /\ err' = "ClientError"
  /\ pc' = "crashed"
  /\ UNCHANGED << command, remapVars, fileVars, waitVars, store, svc >>

\* The remote service writes its own object once, at a time of its choosing
\* after it accepted the command (line 147).
ServiceWrite ==
  /\ svc = "pending"
  /\ store' = Placeholder
  /\ svc' = "written"
  /\ UNCHANGED << pc, err, command, remapVars, fileVars, waitVars >>

Next ==
  \/ PostOk
  \/ PostFail
  \/ Load
  \/ SaveOld
  \/ Pass1Step
  \/ Pass1Done
  \/ Pass2Step
  \/ Pass2Next
  \/ Pass2Done
  \/ Pass3Step
  \/ Pass3Done
  \/ SaveNew
  \/ HeadFound
  \/ HeadNotFound
  \/ HeadError
  \/ TimedOut
  \/ PutCall
  \/ PutOk
  \/ PutFail
  \/ ServiceWrite

Spec == Init /\ [][Next]_vars

\* The steps of the script itself.  The script is one sequential thread:
\* a statement that is reached is executed, so its steps are weakly fair;
\* nothing obliges the remote service to write.
RunNext ==
  \/ PostOk \/ PostFail \/ Load \/ SaveOld
  \/ AdjustIdsNext
  \/ SaveNew
  \/ HeadFound \/ HeadNotFound \/ HeadError \/ TimedOut
  \/ PutCall \/ PutOk \/ PutFail

FairSpec == Spec /\ WF_vars(RunNext)

(***************************************************************************)
(* adjust_ids as a function of the document: the three loops of lines      *)
(* 76-97 run to their end or to the first exception.  The result carries   *)
(* the document as the caller sees it afterwards and the exception raised. *)
(***************************************************************************)
RECURSIVE Pass1From(_, _, _, _)
Pass1From(d, k, m, cur) ==
  IF k > Len(d.activities)
    THEN [doc |-> d, map |-> m, err |-> "none"]
    ELSE LET n == NameBranch(d.activities[k].name, cur)
         IN IF n = Unbound
              THEN [doc |-> d, map |-> m, err |-> "UnboundLocalError"]
              ELSE Pass1From(SetId(d, k, n), k + 1,
                             Store(m, d.activities[k].aid, n), n)

RECURSIVE Pass2From(_, _, _, _)
Pass2From(d, m, pp, aa) ==
  IF pp > Len(d.participants)
    THEN [doc |-> d, map |-> m, err |-> "none"]
    ELSE IF ~d.participants[pp].has \/ aa > Len(d.participants[pp].activities)
      THEN Pass2From(d, m, pp + 1, 1)
      ELSE LET old == d.participants[pp].activities[aa]
           IN IF HasKey(m, old)
                THEN Pass2From([d EXCEPT !.participants[pp].activities[aa] = Lookup(m, old)],
                               m, pp, aa + 1)
                ELSE [doc |-> d, map |-> m, err |-> "KeyError"]

RECURSIVE Pass3From(_, _, _)
Pass3From(d, m, cc) ==
  IF cc > Len(d.categories)
    THEN [doc |-> d, map |-> m, err |-> "none"]
    ELSE LET old == d.categories[cc]
         IN IF HasKey(m, old)
              THEN Pass3From([d EXCEPT !.categories[cc] = Lookup(m, old)], m, cc + 1)
              ELSE [doc |-> d, map |-> m, err |-> "KeyError"]

AdjustIds(d) ==
  LET r1 == Pass1From(d, 1, {}, Unbound)
      r2 == IF r1.err = "none" THEN Pass2From(r1.doc, r1.map, 1, 1) ELSE r1
      r3 == IF r2.err = "none" THEN Pass3From(r2.doc, r2.map, 1) ELSE r2
  IN r3

(***************************************************************************)
(* Vocabulary of the properties.                                           *)
(***************************************************************************)
\* adjust_ids has returned or raised.
RemapEnded == pc \in {"save_new", "crashed"}
RemapReturned == pc = "save_new"

\* The participant reference sites of a document, as <<participant, index>>.
RefSites(d) ==
  UNION { {<<pp, aa>> : aa \in 1..Len(d.participants[pp].activities)} :
          pp \in {q \in 1..Len(d.participants) : d.participants[q].has} }

\* Every identifier referenced from participants and categories of d.
RefIds(d) ==
  {d.participants[s[1]].activities[s[2]] : s \in RefSites(d)}
    \cup {d.categories[k] : k \in 1..Len(d.categories)}

DefIds(d) == {d.activities[k].aid : k \in 1..Len(d.activities)}

AllResolved(d) == RefIds(d) \subseteq DefIds(d)
AllNamed(d) == \A k \in 1..Len(d.activities) : d.activities[k].name \in FixedNames

\* The definition of d an identifier x points to: the one carrying x as its
\* identifier (the last of them in the sequence, should several carry it).
Target(d, x) ==
  CHOOSE k \in 1..Len(d.activities) :
    /\ d.activities[k].aid = x
    /\ \A j \in 1..Len(d.activities) : d.activities[j].aid = x => j <= k

SameShape(d, e) ==
  /\ Len(d.activities) = Len(e.activities)
  /\ Len(d.participants) = Len(e.participants)
  /\ Len(d.categories) = Len(e.categories)
  /\ \A k \in 1..Len(d.participants) :
       /\ d.participants[k].has = e.participants[k].has
       /\ Len(d.participants[k].activities) = Len(e.participants[k].activities)

\* e is d with every definition carrying the new identifier of its name and
\* every reference carrying the new identifier of the definition it pointed to.
Remapped(d, e) ==
  /\ SameShape(d, e)
  /\ \A k \in 1..Len(d.activities) :
       /\ e.activities[k].name = d.activities[k].name
       /\ e.activities[k].aid = NewIdOf(d.activities[k].name)
  /\ \A s \in RefSites(d) :
       e.participants[s[1]].activities[s[2]] =
         NewIdOf(d.activities[Target(d, d.participants[s[1]].activities[s[2]])].name)
  /\ \A k \in 1..Len(d.categories) :
       e.categories[k] = NewIdOf(d.activities[Target(d, d.categories[k])].name)

(***************************************************************************)
(* C1 (SpecRemap).  Referential integrity: when every reference of the     *)
(* document carries the original identifier of some definition and every   *)
(* definition name is one of the four fixed names, adjust_ids raises       *)
(* nothing, and once it has returned every definition carries the new      *)
(* identifier of its name and every participant and category reference     *)
(* carries the new identifier of the definition it pointed to before.      *)
(***************************************************************************)
C1_ReferentialIntegrity ==
  (AllResolved(old_file) /\ AllNamed(old_file)) =>
    /\ pc # "crashed"
    /\ RemapReturned => Remapped(old_file, doc)

\* Two definitions with distinct identifiers, a participant reference and a
\* category reference to different definitions, all rewritten.
C1_Witness ==
  /\ RemapReturned
  /\ AllResolved(old_file) /\ AllNamed(old_file)
  /\ Len(old_file.activities) = 2
  /\ old_file.activities[1].aid # old_file.activities[2].aid
  /\ old_file.activities[1].name # old_file.activities[2].name
  /\ RefSites(old_file) # {}
  /\ Len(old_file.categories) > 0
  /\ \E s \in RefSites(old_file) :
       old_file.participants[s[1]].activities[s[2]] # old_file.categories[1]

(***************************************************************************)
(* C4 (SpecRemap), as claimed.  Unresolved reference: when a participant   *)
(* or category reference carries an identifier that no definition carries, *)
(* adjust_ids fails and the document the caller holds is the document as   *)
(* it was before the call.  (KeyError is the code's unresolved-reference   *)
(* failure.)                                                               *)
(***************************************************************************)
C4_UnresolvedLeavesDocument ==
  (RemapEnded /\ ~AllResolved(old_file)) =>
    /\ pc = "crashed"
    /\ doc = old_file

(***************************************************************************)
(* C5 (SpecRemap), as claimed.  Missing mapping: pass 1 never gets past a  *)
(* definition whose name is none of the four fixed names: adjust_ids fails *)
(* there, at whatever position the definition occurs, so no processed      *)
(* definition has such a name (and none carries another name's identifier).*)
(***************************************************************************)
C5_MissingMappingFails ==
  \A k \in 1..Len(doc.activities) :
    (pc \in {"pass1", "pass2", "pass3", "save_new"} /\ k < i) =>
      /\ doc.activities[k].name \in FixedNames
      /\ doc.activities[k].aid = NewIdOf(doc.activities[k].name)

(***************************************************************************)
(* C10 (SpecRemap), as claimed.  Order independence: running adjust_ids on *)
(* the same document with its definitions and its participants visited in  *)
(* any other order gives the same outcome: the same exception or none, and *)
(* the same identifier at every definition and at every reference.         *)
(***************************************************************************)
Perms(n) == {f \in [1..n -> 1..n] : \A x, y \in 1..n : f[x] = f[y] => x = y}

\* d with its definitions in the order f and its participants in the order g.
Reordered(d, f, g) ==
  [d EXCEPT !.activities = [k \in 1..Len(d.activities) |-> d.activities[f[k]]],
            !.participants = [k \in 1..Len(d.participants) |-> d.participants[g[k]]]]

C10_OrderIndependent ==
  RemapEnded =>
    \A f \in Perms(Len(old_file.activities)) :
      \A g \in Perms(Len(old_file.participants)) :
        LET r == AdjustIds(Reordered(old_file, f, g))
        IN /\ r.err = err
           /\ r.doc = Reordered(doc, f, g)

\* The function form of adjust_ids agrees with the stepwise one.
AdjustIdsAgrees ==
  RemapEnded => (AdjustIds(old_file).doc = doc /\ AdjustIds(old_file).err = err)

\* Order independence where it does hold: no exception and distinct names
\* and identifiers among the definitions.
OrderIndependentWhenClean ==
  (RemapEnded /\ AllResolved(old_file) /\ AllNamed(old_file)
     /\ \A j, k \in 1..Len(old_file.activities) :
          old_file.activities[j].aid = old_file.activities[k].aid => j = k) =>
    \A f \in Perms(Len(old_file.activities)) :
      \A g \in Perms(Len(old_file.participants)) :
        LET r == AdjustIds(Reordered(old_file, f, g))
        IN /\ r.err = err
           /\ r.doc = Reordered(doc, f, g)

(***************************************************************************)
(* C2 (Spec).  Found path: when the store answered "not found" k times and *)
(* then "found", k * wait_interval_seconds < max_wait_seconds, exactly     *)
(* k + 1 existence checks were made, none is made afterwards, and          *)
(* put_object is called exactly once, after the check that succeeded.      *)
(***************************************************************************)
C2_FoundPath ==
  /\ [](wait_result = "found" =>
          /\ notfounds * wait_interval_seconds < max_wait_seconds
          /\ heads = notfounds + 1
          /\ sleeps = notfounds
          /\ pc \in {"found", "put", "done", "crashed"}
          /\ puts = (IF pc = "found" THEN 0 ELSE 1))
  /\ [][wait_result = "found" => (heads' = heads /\ puts' <= 1)]_vars

\* The largest k: 29 "not found" answers, then "found", then the publish.
C2_Witness ==
  /\ wait_result = "found"
  /\ notfounds = 29
  /\ heads = 30
  /\ puts = 1
  /\ pc = "done"

(***************************************************************************)
(* C3 (Spec).  Timeout path: when every existence check answered "not      *)
(* found", exactly ceil(max_wait_seconds / wait_interval_seconds) checks   *)
(* were made, the timeout raises nothing, and put_object is then called    *)
(* exactly once.                                                           *)
(***************************************************************************)
CeilDiv(x, y) == (x + y - 1) \div y

C3_TimeoutPath ==
  /\ heads <= CeilDiv(max_wait_seconds, wait_interval_seconds)
  /\ wait_result = "timeout" =>
       /\ heads = CeilDiv(max_wait_seconds, wait_interval_seconds)
       /\ notfounds = heads
       /\ pc \in {"timed_out", "put", "done", "crashed"}
       /\ pc = "timed_out" => err = "none"
       /\ puts = (IF pc = "timed_out" THEN 0 ELSE 1)

\* The store never had the object, the loop timed out and the run published.
C3_Witness ==
  /\ wait_result = "timeout"
  /\ notfounds = 30
  /\ pc = "done"
  /\ puts = 1
  /\ store.kind = "payload"

(***************************************************************************)
(* C6 (Spec).  An existence-check failure other than "not found" is fatal: *)
(* from then on no existence check is made, no sleep is taken and          *)
(* put_object is never called.                                             *)
(***************************************************************************)
C6_CheckErrorIsFatal ==
  /\ [](wait_result = "error" =>
          /\ pc = "crashed"
          /\ err = "ClientError"
          /\ puts = 0
          /\ store.kind # "payload")
  /\ [][wait_result = "error" =>
          (heads' = heads /\ sleeps' = sleeps /\ puts' = puts)]_vars

\* The failure strikes on the last iteration of the loop.
C6_Witness ==
  /\ wait_result = "error"
  /\ notfounds = 29
  /\ heads = 30
  /\ pc = "crashed"

(***************************************************************************)
(* C7 (Spec).  Submission failure: when the POST is unreachable or answers *)
(* a non-success status, the run ends with the template neither loaded nor *)
(* remapped, no audit copy written, no existence check made and nothing    *)
(* written to the object store.                                            *)
(***************************************************************************)
C7_SubmissionFailure ==
  err \in {"ConnectionError", "HTTPError"} =>
    /\ pc = "handled"
    /\ doc = NoDoc
    /\ activity_id_map = {}
    /\ old_file = NoDoc
    /\ new_file = NoDoc
    /\ heads = 0
    /\ puts = 0
    /\ store.kind \in {"none", "unrelated"}

C7_Witness ==
  /\ pc = "handled"
  /\ err = "HTTPError"
  /\ store.kind = "unrelated"

(***************************************************************************)
(* C8 (Spec), as claimed.  No partial success: put_object is called only   *)
(* after the command was accepted and adjust_ids went through the whole    *)
(* document without a fatal condition (no missing mapping, no unresolved   *)
(* reference), so the payload is the fully remapped document; a run that   *)
(* met a fatal condition never writes the store.                           *)
(***************************************************************************)
C8_NoPartialSuccess ==
  /\ (puts > 0 \/ store.kind = "payload") =>
       /\ command = CommandActivities
       /\ wait_result \in {"found", "timeout"}
       /\ AllNamed(old_file)
       /\ AllResolved(old_file)
       /\ Remapped(old_file, payload)
  /\ store.kind = "payload" => (err = "none" /\ store.body = payload)

\* What the code does guarantee: a publish follows an accepted command and a
\* call of adjust_ids that raised nothing.
PublishAfterRemapReturned ==
  (puts > 0 \/ store.kind = "payload") =>
    /\ command = CommandActivities
    /\ wait_result \in {"found", "timeout"}
    /\ AdjustIds(old_file).err = "none"
    /\ payload = AdjustIds(old_file).doc
    /\ AllNamed(old_file) => Remapped(old_file, payload)

(***************************************************************************)
(* C9 (Spec).  The waiter's state, read off the position of the script.    *)
(***************************************************************************)
WaiterState ==
  CASE pc = "wait" -> "WAITING"
    [] pc = "found" -> "FOUND"
    [] pc = "timed_out" -> "TIMED_OUT"
    [] pc = "put" -> "PUBLISHING"
    [] pc = "done" -> "PUBLISHED"
    [] pc = "crashed" /\ err = "ClientError" -> "FAILED"
    [] OTHER -> "IDLE"

ClaimedTransitions ==
  { <<"IDLE", "WAITING">>,
    <<"WAITING", "FOUND">>, <<"WAITING", "TIMED_OUT">>,
    <<"FOUND", "PUBLISHING">>, <<"TIMED_OUT", "PUBLISHING">>,
    <<"PUBLISHING", "PUBLISHED">>, <<"PUBLISHING", "FAILED">> }

WaiterStep(T) ==
  WaiterState' # WaiterState => <<WaiterState, WaiterState'>> \in T

\* Publish is attempted at most once, never while waiting, and a failed
\* waiter neither publishes again nor checks again.
PublishOnce ==
  /\ [](puts <= 1 /\ (WaiterState = "WAITING" => puts = 0))
  /\ [][WaiterState = "FAILED" =>
          (WaiterState' = "FAILED" /\ puts' = puts /\ heads' = heads)]_vars

\* C9 as claimed: the waiter moves only along WAITING -> FOUND,
\* WAITING -> TIMED_OUT, FOUND -> PUBLISHING, TIMED_OUT -> PUBLISHING,
\* PUBLISHING -> PUBLISHED and PUBLISHING -> FAILED (after entering WAITING),
\* publish is attempted at most once and never while WAITING, and a failed
\* publish is followed by no retry and no further existence check.
C9_ClaimedMachine ==
  /\ [][WaiterStep(ClaimedTransitions)]_vars
  /\ PublishOnce

\* C9 as amended: the same, with the further transition WAITING -> FAILED,
\* taken when an existence check fails with an error other than "not found".
C9_Machine ==
  /\ [][WaiterStep(ClaimedTransitions \cup {<<"WAITING", "FAILED">>})]_vars
  /\ PublishOnce

\* A publish that failed after a timeout: the waiter is FAILED with one put.
C9_Witness ==
  /\ WaiterState = "FAILED"
  /\ wait_result = "timeout"
  /\ puts = 1

(***************************************************************************)
(* C11 (SpecRemap).  A second call of adjust_ids on the document the first *)
(* call has remapped.                                                      *)
(***************************************************************************)
SecondCall == AdjustIds(doc)

\* C11 as claimed: the second call leaves the document unchanged only if the
\* first call left it unchanged too (the new identifiers equal the original
\* ones); when they differ the second call is not a no-op.
C11_SingleUse ==
  RemapReturned => (SecondCall.doc = doc => doc = old_file)

\* C11 as amended: the second call raises nothing and leaves the remapped
\* document unchanged, whether or not the new identifiers equal the
\* original ones.
C11_SecondCallNoOp ==
  RemapReturned => (SecondCall.err = "none" /\ SecondCall.doc = doc)

\* The first call rewrote definitions and references, the second nothing.
C11_Witness ==
  /\ RemapReturned
  /\ doc.activities # old_file.activities
  /\ doc.categories # old_file.categories
  /\ RefSites(old_file) # {}
  /\ SecondCall.doc = doc

(***************************************************************************)
(* C12 (Spec).  Unconditional overwrite: put_object can succeed whatever   *)
(* is at the key (nothing, the service's object or an unrelated object),   *)
(* and right after it succeeded the key holds exactly the payload, the     *)
(* document as adjust_ids left it, with nothing of the previous content.   *)
(***************************************************************************)
Published == pc = "put" /\ pc' = "done"

C12_UnconditionalOverwrite ==
  /\ [](pc = "put" => ENABLED PutOk)
  /\ [][Published =>
          /\ store' = [kind |-> "payload", body |-> payload]
          /\ payload = doc
          /\ payload = new_file]_vars

\* The object was found before the service wrote anything, so it was the
\* unrelated object; the publish has replaced it by the payload.
C12_Witness ==
  /\ pc = "done"
  /\ wait_result = "found"
  /\ svc = "pending"
  /\ store.kind = "payload"
  /\ store.body = payload
  /\ payload # NoDoc

(***************************************************************************)
(* C13 (Spec).  The service's write against the publish.                   *)
(***************************************************************************)
ServiceWrote == svc = "pending" /\ svc' = "written"

\* C13 as claimed: once the run has published and the service has written
\* its placeholder, the key holds the run's payload, not the placeholder.
C13_LateWriteLost ==
  (pc = "done" /\ svc = "written") => store.kind = "payload"

\* C13 as amended: a placeholder written after the loop timed out and before
\* the publish is lost, the publish leaving the payload at the key; a
\* placeholder written after the publish replaces the payload, and nothing
\* puts the payload back.
C13_LastWriterWins ==
  /\ [][(Published /\ svc = "written") =>
          store' = [kind |-> "payload", body |-> payload]]_vars
  /\ [][(ServiceWrote /\ pc = "done") => store' = Placeholder]_vars
  /\ [][(pc = "done" /\ svc = "written") => store' = store]_vars

\* Every check answered "not found", the service wrote after the last one,
\* and the publish has replaced its placeholder.
C13_Witness ==
  /\ wait_result = "timeout"
  /\ notfounds = 30
  /\ svc = "written"
  /\ pc = "done"
  /\ store.kind = "payload"

(***************************************************************************)
(* C14 (SpecRemap).  Pass ordering: no participant or category reference   *)
(* is rewritten before every definition has been processed and its         *)
(* original identifier recorded in activity_id_map; a reference therefore  *)
(* ends with the identifier given to the definition it pointed to,         *)
(* whatever that definition's position, the last included.                 *)
(***************************************************************************)
Pass1Complete ==
  /\ i > Len(doc.activities)
  /\ \A x \in DefIds(old_file) : HasKey(activity_id_map, x)

ReferencesAsLoaded ==
  /\ doc.participants = old_file.participants
  /\ doc.categories = old_file.categories

C14_PassOrdering ==
  /\ [](pc = "pass1" => ReferencesAsLoaded)
  /\ [](pc \in {"pass2", "pass3"} => Pass1Complete)
  /\ [][(doc'.participants # doc.participants \/ doc'.categories # doc.categories)
          => Pass1Complete]_vars
  /\ [](RemapReturned =>
          /\ \A s \in RefSites(old_file) :
               doc.participants[s[1]].activities[s[2]] =
                 doc.activities[Target(old_file, old_file.participants[s[1]].activities[s[2]])].aid
          /\ \A k \in 1..Len(old_file.categories) :
               doc.categories[k] = doc.activities[Target(old_file, old_file.categories[k])].aid)

\* A participant reference to the last of two definitions, resolved.
C14_Witness ==
  /\ RemapReturned
  /\ Len(old_file.activities) = 2
  /\ old_file.activities[1].aid # old_file.activities[2].aid
  /\ \E s \in RefSites(old_file) :
       /\ old_file.participants[s[1]].activities[s[2]] = old_file.activities[2].aid
       /\ doc.participants[s[1]].activities[s[2]] = doc.activities[2].aid
       /\ doc.participants[s[1]].activities[s[2]] # old_file.participants[s[1]].activities[s[2]]

C15_SharedIdentifiers ==
  /\ [][command # <<>> => command' = command]_vars
  /\ [](puts > 0 =>
          \A k \in 1..Len(payload.activities) :
            payload.activities[k].name \in FixedNames =>
              \E j \in 1..Len(command) :
                /\ command[j].name = payload.activities[k].name
                /\ command[j].aid = payload.activities[k].aid)

\* The four definitions of the end-to-end scenario, published.
C15_Witness ==
  /\ pc = "done"
  /\ store.kind = "payload"
  /\ Len(store.body.activities) = 4
  /\ \A j \in 1..4 : store.body.activities[j] = command[j]

(***************************************************************************)
(* C19 (Spec).  Wait-loop accounting: time_waited is wait_interval_seconds *)
(* times the number of "not found" answers, never decreases, never exceeds *)
(* max_wait_seconds, and head_object is called only while                  *)
(* time_waited < max_wait_seconds.                                         *)
(***************************************************************************)
C19_Accounting ==
  /\ [](/\ time_waited = wait_interval_seconds * notfounds
        /\ time_waited <= max_wait_seconds
        /\ sleeps = notfounds)
  /\ [][/\ time_waited' >= time_waited
        /\ heads' # heads => (pc = "wait" /\ time_waited < max_wait_seconds)]_vars

\* The loop at its bound: thirty "not found" answers, 300 seconds waited.
C19_Witness ==
  /\ pc = "wait"
  /\ notfounds = 30
  /\ time_waited = max_wait_seconds

(***************************************************************************)
(* C16 (FairSpec).  Termination: whatever the store answers, at most       *)
(* ceil(max_wait_seconds / wait_interval_seconds) existence checks are     *)
(* made, and every run eventually ends: published, or failed.              *)
(***************************************************************************)
Terminated == pc \in {"done", "handled", "crashed"}

C16_Termination ==
  /\ [](heads <= CeilDiv(max_wait_seconds, wait_interval_seconds))
  /\ <>Terminated
  /\ [](pc = "wait" => <>(pc # "wait"))

\* A run that ended after the largest number of checks, the last one
\* answering "found".
C16_Witness ==
  /\ Terminated
  /\ heads = CeilDiv(max_wait_seconds, wait_interval_seconds)
  /\ wait_result = "found"

(***************************************************************************)
(* C17 (Spec).  What a fatal condition does to the run.                    *)
(***************************************************************************)
\* C17 as claimed: every fatal condition ends the run in the handled
\* failure state, no exception propagating out of the run.
C17_AllHandled ==
  err # "none" => pc = "handled"

\* C17 as amended: every fatal condition stops the run at once; a
\* submission failure is caught and ends in the handled state, while a
\* failure of adjust_ids (KeyError, UnboundLocalError), of an existence
\* check or of the publish (ClientError) propagates out of the run.
C17_Propagation ==
  /\ [](err \in {"ConnectionError", "HTTPError"} <=> pc = "handled")
  /\ [](err \in {"KeyError", "UnboundLocalError", "ClientError"} <=> pc = "crashed")
  /\ [](err \in {"none", "ConnectionError", "HTTPError", "KeyError",
                 "UnboundLocalError", "ClientError"})
  /\ [][err # "none" =>
          UNCHANGED << pc, err, command, remapVars, fileVars, waitVars >>]_vars

\* An unresolved reference: the KeyError leaves the run unhandled.
C17_Witness ==
  /\ err = "KeyError"
  /\ pc = "crashed"
  /\ old_file # NoDoc
  /\ new_file = NoDoc

=============================================================================
